---- MODULE Spec2Model ----
(***************************************************************************)
(* Model of the reporters of t-rest (src/reporter.go): ConsoleReporter,    *)
(* JUnitXMLReporter and MultiReporter.                                     *)
(*                                                                         *)
(* Instants are natural numbers of milliseconds; 0 is Go's zero time.      *)
(* The console sink is the sequence of the lines started by StartLine      *)
(* (Report) and of the writes of Flush, each tagged with the call that     *)
(* wrote it.  With the Writer NewConsoleReporter installs (os.Stdout),     *)
(* r.Writer, color.Output and fmt's standard output are one stream.        *)
(***************************************************************************)
EXTENDS Naturals, Integers, Sequences, FiniteSets, TLC

VARIABLES
    r,          \* the ConsoleReporter struct: IntendSize, execFrame (<<>> is the nil
                \* pointer, <<f>> points to frame f), total, failed, skipped
    ioMutex,    \* the *sync.Mutex of the reporter: 0 when free, else the holding thread
    sink,       \* what has been written to the console, in order
    now,        \* the wall clock (advanced by every time.Now())
    pc,         \* per thread: position in Report / Flush
    batch,      \* per thread: the argument of the running Report
    idx,        \* per thread: index of the next result of the for loop at line 95
    cp,         \* per thread: Flush's receiver copy (Flush has a value receiver)
    callId,     \* per thread: number of the running call in `calls`
    quota,      \* per thread: calls the harness still issues on this thread
    calls,      \* every call issued so far, in order of invocation
    files,      \* the file system under OutPath: path -> content
    outDir,     \* whether the directory OutPath exists
    jlast,      \* the last call of JUnitXMLReporter.Report: its batch and its outcome
    Reporters,  \* the MultiReporter struct: its list of reporters
    mrun,       \* the running call of the MultiReporter: method, batch, next member
    mphase,     \* calls the harness has issued on the MultiReporter
    mlog        \* call-order instrumentation: the member calls made, in order

thr == <<pc, batch, idx, cp, callId, quota, calls>>

con == <<r, ioMutex, sink, thr>>

junit == <<files, outDir, jlast>>

multi == <<Reporters, mrun, mphase, mlog>>

vars == <<con, now, junit, multi>>

-----------------------------------------------------------------------------
(* Bounds *)

NProcs == 2        \* threads of the harness that call the reporter in parallel
MaxParBatch == 1   \* longest batch of a run of several reporters or threads
MaxBatch == 2      \* longest batch of a sequential run of one reporter
MaxCalls == 2      \* calls of a sequential run of the console reporter
MaxReports == 2    \* non-empty Report calls of a run of the XML reporter
MaxMembers == 2    \* longest list of a MultiReporter

(* Program constants *)

DefaultIntendSize == 4

-----------------------------------------------------------------------------
(* Inputs: TestResult values.  The types TestResult, Suite, Case, Trace    *)
(* and TimeFrame are declared outside src/reporter.go; the reporters read  *)
(* the fields modelled here.                                               *)

Nil == "nil"

Threads == 1..NProcs

Frame(s, e) == [Start |-> s, End |-> e]

\* Suite p is the suite the harness runs on thread p.
SuiteOf(p) == [Name |-> ToString(p), Pkg |-> "pkg" \o ToString(p)]

Suites == { SuiteOf(1), SuiteOf(2) }

\* The four combinations of the skipped flag and the failure, with frames
\* that overlap, nest and come out of order.
Outcomes ==
    { [Case |-> "c1", Skipped |-> FALSE, SkippedMsg |-> "",    Error |-> Nil,    ExecFrame |-> Frame(2000, 2100), Traces |-> <<>>],
      [Case |-> "c2", Skipped |-> FALSE, SkippedMsg |-> "",    Error |-> "boom", ExecFrame |-> Frame(1500, 1550), Traces |-> <<>>],
      [Case |-> "c3", Skipped |-> TRUE,  SkippedMsg |-> "why", Error |-> Nil,    ExecFrame |-> Frame(2050, 3200), Traces |-> <<>>],
      [Case |-> "c4", Skipped |-> TRUE,  SkippedMsg |-> "why", Error |-> "boom", ExecFrame |-> Frame(3100, 3150), Traces |-> <<>>] }

WithSuite(s, o) ==
    [Suite |-> s, Case |-> o.Case, Skipped |-> o.Skipped, SkippedMsg |-> o.SkippedMsg,
     Error |-> o.Error, ExecFrame |-> o.ExecFrame, Traces |-> o.Traces]

\* The batches of suite s of at most n results: ordered, possibly empty.
BatchesOf(s, n) ==
    UNION { { [k \in 1..m |-> WithSuite(s, os[k])] : os \in [1..m -> Outcomes] } :
            m \in 0..n }

\* A trace: Req tells whether the request descriptor is there (FALSE is the
\* nil pointer), Name is what line 132 prints of it; ExpDesc is a map, given
\* as the sequence in which the range statement yields its entries.
Trace(req, name, exps) == [Req |-> req, Name |-> name, ExpDesc |-> exps]

Expectations ==
    << [exp |-> "status is 200", failed |-> FALSE], [exp |-> "body has id", failed |-> TRUE] >>

\* Results with traces: no request descriptor, a request without
\* expectations, a request with expectations in either order of iteration,
\* several traces, and a skipped result that has traces.
TracedOutcomes ==
    { [Case |-> "t1", Skipped |-> FALSE, SkippedMsg |-> "",    Error |-> Nil,    ExecFrame |-> Frame(2000, 2100),
       Traces |-> << Trace(FALSE, "", <<>>) >>],
      [Case |-> "t2", Skipped |-> FALSE, SkippedMsg |-> "",    Error |-> Nil,    ExecFrame |-> Frame(2000, 2100),
       Traces |-> << Trace(TRUE, "GET /a", <<>>) >>],
      [Case |-> "t3", Skipped |-> FALSE, SkippedMsg |-> "",    Error |-> "boom", ExecFrame |-> Frame(1500, 1550),
       Traces |-> << Trace(TRUE, "GET /a", Expectations) >>],
      [Case |-> "t4", Skipped |-> FALSE, SkippedMsg |-> "",    Error |-> "boom", ExecFrame |-> Frame(1500, 1550),
       Traces |-> << Trace(TRUE, "GET /a", << Expectations[2], Expectations[1] >>) >>],
      [Case |-> "t5", Skipped |-> FALSE, SkippedMsg |-> "",    Error |-> Nil,    ExecFrame |-> Frame(2050, 3200),
       Traces |-> << Trace(FALSE, "", <<>>), Trace(TRUE, "GET /a", << Expectations[1] >>),
                     Trace(TRUE, "POST /b", <<>>) >>],
      [Case |-> "t6", Skipped |-> TRUE,  SkippedMsg |-> "why", Error |-> Nil,    ExecFrame |-> Frame(3100, 3150),
       Traces |-> << Trace(TRUE, "GET /a", Expectations) >>] }

\* The batches of suite s of at most n results, with and without traces.
TracedBatchesOf(s, n) ==
    UNION { { [k \in 1..m |-> WithSuite(s, os[k])] :
                os \in [1..m -> TracedOutcomes \cup { o \in Outcomes : o.Case = "c1" }] } :
            m \in 0..n }

\* The batches of at most n results in which every result names a suite of
\* its own choice.
MixedBatches(n) ==
    UNION { { [k \in 1..m |-> WithSuite(ss[k], os[k])] :
                ss \in [1..m -> Suites], os \in [1..m -> Outcomes] } :
            m \in 0..n }

hasError(res) == res.Error # Nil

FullName(s) == s.Pkg \o "." \o s.Name

Duration(f) == f.End - f.Start

-----------------------------------------------------------------------------
(* ConsoleReporter *)

StatusPassed  == [Icon |-> "v", Label |-> "PASSED"]
StatusFailed  == [Icon |-> "x", Label |-> "FAILED"]
StatusSkipped == [Icon |-> "",  Label |-> "SKIPPED"]

\* One line on the sink: StartLine at the current indentation and the writes
\* that follow it up to the next StartLine.  `table` holds the rows of the
\* summary table on the line that prints it.
Line(id, indent, kind, label, text) ==
    [call |-> id, indent |-> indent, kind |-> kind, label |-> label, text |-> text,
     table |-> <<>>]

\* line 43
InitFrame(rr, t) == [rr EXCEPT !.execFrame = <<Frame(t, 0)>>]

Intend(rr) == [rr EXCEPT !.IntendSize = @ + DefaultIntendSize]

Unintend(rr) == [rr EXCEPT !.IntendSize = @ - DefaultIntendSize]

\* lines 92-93
SuiteLine(id, rr, results) ==
    Line(id, rr.IntendSize, "suite", "", FullName(results[1].Suite))

\* ReportTraces without the test of the request descriptor: every trace
\* starts its lines.
RECURSIVE ReportTraces_EveryTrace(_, _, _, _)
ReportTraces_EveryTrace(st, res, t, id) ==
    IF t > Len(res.Traces) THEN st
    ELSE LET trace == res.Traces[t]
             r1 == Intend(st.r)
             o1 == Append(st.out, Line(id, r1.IntendSize, "trace", "", trace.Name))
             r2 == Intend(r1)
             o2 == o1 \o [k \in 1..Len(trace.ExpDesc) |->
                             Line(id, r2.IntendSize, "exp",
                                  IF trace.ExpDesc[k].failed
                                  THEN StatusFailed.Icon ELSE StatusPassed.Icon,
                                  trace.ExpDesc[k].exp)]
             o3 == Append(o2, Line(id, r1.IntendSize, "traceEnd", "", ""))
         IN  ReportTraces_EveryTrace([r |-> Unintend(r1), out |-> o3], res, t + 1, id)

\* The lines of the traces of one result (lines 123-151), from trace t on.
\* ExpDesc is given as the sequence in which the range statement yields it.
\* st = [r |-> reporter, out |-> sink].
RECURSIVE ReportTraces(_, _, _, _)
ReportTraces(st, res, t, id) ==
    IF t > Len(res.Traces) THEN st
    ELSE LET trace == res.Traces[t] IN
         IF ~trace.Req THEN ReportTraces(st, res, t + 1, id)
         ELSE LET r1 == Intend(st.r)
                  o1 == Append(st.out, Line(id, r1.IntendSize, "trace", "", trace.Name))
                  r2 == Intend(r1)
                  o2 == o1 \o [k \in 1..Len(trace.ExpDesc) |->
                                  Line(id, r2.IntendSize, "exp",
                                       IF trace.ExpDesc[k].failed
                                       THEN StatusFailed.Icon ELSE StatusPassed.Icon,
                                       trace.ExpDesc[k].exp)]
                  o3 == Append(o2, Line(id, r1.IntendSize, "traceEnd", "", ""))
              IN  ReportTraces([r |-> Unintend(r1), out |-> o3], res, t + 1, id)

\* ReportCase with the total counted after the skip branch has left the
\* iteration: a skipped case is not counted.
ReportCase_SkipUncounted(st, res, id) ==
    LET r1 == Intend(st.r)
    IN  IF res.Skipped
        THEN [r   |-> Unintend([r1 EXCEPT !.skipped = @ + 1]),
              out |-> Append(st.out, Line(id, r1.IntendSize, "case",
                                          StatusSkipped.Label, res.Case))]
        ELSE LET r2 == IF hasError(res) THEN [r1 EXCEPT !.failed = @ + 1, !.total = @ + 1]
                                        ELSE [r1 EXCEPT !.total = @ + 1]
                 lb == IF hasError(res) THEN StatusFailed.Label ELSE StatusPassed.Label
             IN  [r   |-> Unintend(r2),
                  out |-> Append(st.out, Line(id, r1.IntendSize, "case", lb, res.Case))]

\* ReportCase whose skip branch leaves the iteration without Unintend.
ReportCase_SkipKeepsIndent(st, res, id) ==
    LET r0 == [st.r EXCEPT !.total = @ + 1]
        r1 == Intend(r0)
    IN  IF res.Skipped
        THEN [r   |-> [r1 EXCEPT !.skipped = @ + 1],
              out |-> Append(st.out, Line(id, r1.IntendSize, "case",
                                          StatusSkipped.Label, res.Case))]
        ELSE LET r2 == IF hasError(res) THEN [r1 EXCEPT !.failed = @ + 1] ELSE r1
                 lb == IF hasError(res) THEN StatusFailed.Label ELSE StatusPassed.Label
                 s3 == ReportTraces([r   |-> r2,
                                     out |-> Append(st.out, Line(id, r1.IntendSize, "case",
                                                                 lb, res.Case))],
                                    res, 1, id)
             IN  [r |-> Unintend(s3.r), out |-> s3.out]

\* One iteration of the for loop of Report (lines 95-155).
ReportCase(st, res, id) ==
    LET r0 == [st.r EXCEPT !.total = @ + 1]
        r1 == Intend(r0)
    IN  IF res.Skipped
        THEN [r   |-> Unintend([r1 EXCEPT !.skipped = @ + 1]),
              out |-> Append(st.out, Line(id, r1.IntendSize, "case",
                                          StatusSkipped.Label, res.Case))]
        ELSE LET r2 == IF hasError(res) THEN [r1 EXCEPT !.failed = @ + 1] ELSE r1
                 lb == IF hasError(res) THEN StatusFailed.Label ELSE StatusPassed.Label
                 s3 == ReportTraces([r   |-> r2,
                                     out |-> Append(st.out, Line(id, r1.IntendSize, "case",
                                                                 lb, res.Case))],
                                    res, 1, id)
             IN  [r |-> Unintend(s3.r), out |-> s3.out]

\* line 157
EndLine(id, rr) == Line(id, rr.IntendSize, "end", "", "")

\* lines 243-246
Overall(c) == IF c.failed # 0 THEN "FAILED" ELSE "PASSED"

\* lines 254-267: the rows of the summary table
Summary(c, frame) ==
    [overall |-> Overall(c), total |-> c.total,
     passed |-> c.total - c.failed - c.skipped,
     failed |-> c.failed, skipped |-> c.skipped,
     start |-> frame.Start, end |-> frame.End, duration |-> Duration(frame)]

\* lines 248-250
FlushHead(id) ==
    << Line(id, 0, "flush", "", ""),
       Line(id, 0, "flush", "", "Test Run Summary"),
       Line(id, 0, "flush", "", "-------------------------------") >>

\* lines 252-269: the tabwriter buffers the rows and writes them at w.Flush()
FlushTable(id, c, frame) ==
    [Line(id, 0, "summary", "", "") EXCEPT !.table = <<Summary(c, frame)>>]

\* line 270
FlushTail(id) == Line(id, 0, "flush", "", "")

\* The fields of the receiver copy that Flush reads, and the copy before any
\* of them has been read.
CopiedFields == {"total", "failed", "skipped"}

NoCopy == [f \in {} |-> 0]

-----------------------------------------------------------------------------
(* The harness of the console reporter: Init once, then Report and Flush   *)
(* calls on its threads.                                                   *)

ConsoleInit ==
    /\ r.execFrame = <<>>
    /\ \A p \in Threads : pc[p] = "idle"
    /\ r' = InitFrame(r, now)
    /\ now' = now + 1
    /\ UNCHANGED <<ioMutex, sink, thr, junit, multi>>

\* Threads are numbered in the order in which they issue their first call.
MayCall(p) ==
    /\ pc[p] = "idle" /\ quota[p] > 0 /\ r.execFrame # <<>>
    /\ \A q \in Threads : q < p => quota[q] = 0

\* Thread p calls Report with one of the batches bs.
CallReportOf(p, bs) ==
    /\ MayCall(p)
    /\ \E b \in bs :
          /\ batch' = [batch EXCEPT ![p] = b]
          /\ calls' = Append(calls, [op |-> "Report", thread |-> p, batch |-> b])
    /\ callId' = [callId EXCEPT ![p] = Len(calls) + 1]
    /\ quota' = [quota EXCEPT ![p] = @ - 1]
    /\ pc' = [pc EXCEPT ![p] = "r_lock"]
    /\ UNCHANGED <<r, ioMutex, sink, now, idx, cp, junit, multi>>

CallReport(p, n) == CallReportOf(p, BatchesOf(SuiteOf(p), n))

\* RLock that does not wait for the mutex.
RLock_NoWait(p) ==
    /\ pc[p] = "r_lock"
    /\ ioMutex' = p
    /\ pc' = [pc EXCEPT ![p] = "r_begin"]
    /\ UNCHANGED <<r, sink, now, batch, idx, cp, callId, quota, calls, junit, multi>>

\* line 82
RLock(p) ==
    /\ pc[p] = "r_lock" /\ ioMutex = 0
    /\ ioMutex' = p
    /\ pc' = [pc EXCEPT ![p] = "r_begin"]
    /\ UNCHANGED <<r, sink, now, batch, idx, cp, callId, quota, calls, junit, multi>>

\* RBegin whose early return leaves the mutex locked.
RBegin_KeepsLock(p) ==
    /\ pc[p] = "r_begin"
    /\ IF Len(batch[p]) = 0
       THEN /\ pc' = [pc EXCEPT ![p] = "idle"]
            /\ UNCHANGED <<sink, idx>>
       ELSE /\ sink' = Append(sink, SuiteLine(callId[p], r, batch[p]))
            /\ idx' = [idx EXCEPT ![p] = 1]
            /\ pc' = [pc EXCEPT ![p] = "r_case"]
    /\ UNCHANGED <<r, ioMutex, now, batch, cp, callId, quota, calls, junit, multi>>

\* lines 84-93: the early return of an empty batch, else the suite line
RBegin(p) ==
    /\ pc[p] = "r_begin"
    /\ IF Len(batch[p]) = 0
       THEN /\ ioMutex' = 0
            /\ pc' = [pc EXCEPT ![p] = "idle"]
            /\ UNCHANGED <<sink, idx>>
       ELSE /\ sink' = Append(sink, SuiteLine(callId[p], r, batch[p]))
            /\ idx' = [idx EXCEPT ![p] = 1]
            /\ pc' = [pc EXCEPT ![p] = "r_case"]
            /\ UNCHANGED ioMutex
    /\ UNCHANGED <<r, now, batch, cp, callId, quota, calls, junit, multi>>

\* lines 95-155, one result
RCase(p) ==
    /\ pc[p] = "r_case"
    /\ LET st == ReportCase([r |-> r, out |-> sink], batch[p][idx[p]], callId[p]) IN
          /\ r' = st.r
          /\ sink' = st.out
    /\ idx' = [idx EXCEPT ![p] = @ + 1]
    /\ pc' = [pc EXCEPT ![p] = IF idx[p] < Len(batch[p]) THEN "r_case" ELSE "r_end"]
    /\ UNCHANGED <<ioMutex, now, batch, cp, callId, quota, calls, junit, multi>>

\* line 157
REnd(p) ==
    /\ pc[p] = "r_end"
    /\ sink' = Append(sink, EndLine(callId[p], r))
    /\ pc' = [pc EXCEPT ![p] = "r_unlock"]
    /\ UNCHANGED <<r, ioMutex, now, batch, idx, cp, callId, quota, calls, junit, multi>>

\* line 159
RUnlock(p) ==
    /\ pc[p] = "r_unlock"
    /\ ioMutex' = 0
    /\ pc' = [pc EXCEPT ![p] = "idle"]
    /\ UNCHANGED <<r, sink, now, batch, idx, cp, callId, quota, calls, junit, multi>>

CallFlush(p) ==
    /\ MayCall(p)
    /\ calls' = Append(calls, [op |-> "Flush", thread |-> p, batch |-> <<>>])
    /\ callId' = [callId EXCEPT ![p] = Len(calls) + 1]
    /\ quota' = [quota EXCEPT ![p] = @ - 1]
    /\ cp' = [cp EXCEPT ![p] = NoCopy]
    /\ pc' = [pc EXCEPT ![p] = "f_copy"]
    /\ UNCHANGED <<r, ioMutex, sink, now, batch, idx, junit, multi>>

\* line 239: the value receiver copies *r before the body runs, without the
\* lock; the copy is not atomic, so the counters are read one by one, in any
\* order, each at its own moment.
FCopy(p) ==
    /\ pc[p] = "f_copy"
    /\ \E f \in CopiedFields \ DOMAIN cp[p] :
          LET c == (f :> r[f]) @@ cp[p] IN
             /\ cp' = [cp EXCEPT ![p] = c]
             /\ pc' = [pc EXCEPT ![p] = IF DOMAIN c = CopiedFields
                                        THEN "f_lock" ELSE "f_copy"]
    /\ UNCHANGED <<r, ioMutex, sink, now, batch, idx, callId, quota, calls, junit, multi>>

\* FLock on a mutex of its own: what Flush would lock if the mutex were a
\* value field, copied with the receiver.
FLock_OwnMutex(p) ==
    /\ pc[p] = "f_lock"
    /\ pc' = [pc EXCEPT ![p] = "f_close"]
    /\ UNCHANGED <<r, ioMutex, sink, now, batch, idx, cp, callId, quota, calls, junit, multi>>

\* line 240
FLock(p) ==
    /\ pc[p] = "f_lock" /\ ioMutex = 0
    /\ ioMutex' = p
    /\ pc' = [pc EXCEPT ![p] = "f_close"]
    /\ UNCHANGED <<r, sink, now, batch, idx, cp, callId, quota, calls, junit, multi>>

\* line 241: execFrame is a pointer, the copy shares the frame with *r
FClose(p) ==
    /\ pc[p] = "f_close"
    /\ r' = [r EXCEPT !.execFrame[1].End = now]
    /\ now' = now + 1
    /\ pc' = [pc EXCEPT ![p] = "f_head"]
    /\ UNCHANGED <<ioMutex, sink, batch, idx, cp, callId, quota, calls, junit, multi>>

\* lines 248-250
FHead(p) ==
    /\ pc[p] = "f_head"
    /\ sink' = sink \o FlushHead(callId[p])
    /\ pc' = [pc EXCEPT ![p] = "f_table"]
    /\ UNCHANGED <<r, ioMutex, now, batch, idx, cp, callId, quota, calls, junit, multi>>

\* lines 252-269
FTable(p) ==
    /\ pc[p] = "f_table"
    /\ sink' = Append(sink, FlushTable(callId[p], cp[p], r.execFrame[1]))
    /\ pc' = [pc EXCEPT ![p] = "f_tail"]
    /\ UNCHANGED <<r, ioMutex, now, batch, idx, cp, callId, quota, calls, junit, multi>>

\* line 270
FTail(p) ==
    /\ pc[p] = "f_tail"
    /\ sink' = Append(sink, FlushTail(callId[p]))
    /\ pc' = [pc EXCEPT ![p] = "f_unlock"]
    /\ UNCHANGED <<r, ioMutex, now, batch, idx, cp, callId, quota, calls, junit, multi>>

\* line 271
FUnlock(p) ==
    /\ pc[p] = "f_unlock"
    /\ ioMutex' = 0
    /\ pc' = [pc EXCEPT ![p] = "idle"]
    /\ UNCHANGED <<r, sink, now, batch, idx, cp, callId, quota, calls, junit, multi>>

\* The steps of a running call of thread p.
Run(p) ==
    \/ RLock(p) \/ RBegin(p) \/ RCase(p) \/ REnd(p) \/ RUnlock(p)
    \/ FCopy(p) \/ FLock(p) \/ FClose(p) \/ FHead(p) \/ FTable(p) \/ FTail(p) \/ FUnlock(p)

\* A whole Report call that no other call overlaps (lines 81-160).
RECURSIVE ReportCases(_, _, _, _)
ReportCases(st, results, k, id) ==
    IF k > Len(results) THEN st
    ELSE ReportCases(ReportCase(st, results[k], id), results, k + 1, id)

ConsoleReport(st, results, id) ==
    IF Len(results) = 0 THEN st
    ELSE LET s1 == ReportCases([r   |-> st.r,
                                out |-> Append(st.out, SuiteLine(id, st.r, results))],
                               results, 1, id)
         IN  [r |-> s1.r, out |-> Append(s1.out, EndLine(id, s1.r))]

\* A whole Flush call that no other call overlaps (lines 239-272), at instant t.
ConsoleFlush(st, t, id) ==
    LET c  == [f \in CopiedFields |-> st.r[f]]
        r1 == [st.r EXCEPT !.execFrame[1].End = t]
    IN  [r   |-> r1,
         out |-> (st.out \o FlushHead(id))
                 \o << FlushTable(id, c, r1.execFrame[1]), FlushTail(id) >>]

-----------------------------------------------------------------------------
(* JUnitXMLReporter *)

OutPath == "out"

PackageName(s) == s.Pkg

Min(a, b) == IF a <= b THEN a ELSE b

Max(a, b) == IF a >= b THEN a ELSE b

\* TimeFrame.Extend: widen to cover the other frame.
Extend(tf, other) == Frame(Min(tf.Start, other.Start), Max(tf.End, other.End))

\* time.Duration.Seconds of a duration of d milliseconds: whole seconds and
\* the fraction, in thousandths.
Seconds(d) == [sec |-> d \div 1000, frac |-> d % 1000]

\* line 345: the instant in UTC, formatted to the millisecond
TimeStamp(t) == [utc |-> t]

\* lines 341-348
NewSuite(first, t) ==
    [ID |-> 0, Name |-> first.Suite.Name, PackageName |-> PackageName(first.Suite),
     TimeStamp |-> TimeStamp(t), Time |-> Seconds(0), HostName |-> "localhost",
     Tests |-> 0, Failures |-> 0, Errors |-> 0, Skipped |-> 0,
     Cases |-> <<>>, fullName |-> FullName(first.Suite)]

\* TestCase with the precedence of the console reporter: a skipped result
\* gets no failure child.
TestCase_SkipHidesFailure(res, sr) ==
    [Name |-> res.Case, ClassName |-> sr.fullName,
     Time |-> Seconds(Duration(res.ExecFrame)),
     Failure |-> IF res.Error # Nil /\ ~res.Skipped
                 THEN << [Type |-> "FailedExpectation", Message |-> res.Error,
                          Details |-> res.Error \o "\n\n"] >>
                 ELSE <<>>,
     Skipped |-> IF res.Skipped THEN << [Message |-> res.SkippedMsg] >> ELSE <<>>]

\* TestCase with the class name taken from the suite of the result itself.
TestCase_OwnSuite(res, sr) ==
    [Name |-> res.Case, ClassName |-> FullName(res.Suite),
     Time |-> Seconds(Duration(res.ExecFrame)),
     Failure |-> IF res.Error # Nil
                 THEN << [Type |-> "FailedExpectation", Message |-> res.Error,
                          Details |-> res.Error \o "\n\n"] >>
                 ELSE <<>>,
     Skipped |-> IF res.Skipped THEN << [Message |-> res.SkippedMsg] >> ELSE <<>>]

\* lines 353-376: the record of one result; an absent child is <<>>
TestCase(res, sr) ==
    [Name |-> res.Case, ClassName |-> sr.fullName,
     Time |-> Seconds(Duration(res.ExecFrame)),
     Failure |-> IF res.Error # Nil
                 THEN << [Type |-> "FailedExpectation", Message |-> res.Error,
                          Details |-> res.Error \o "\n\n"] >>
                 ELSE <<>>,
     Skipped |-> IF res.Skipped THEN << [Message |-> res.SkippedMsg] >> ELSE <<>>]

\* Accumulate with the suite time kept as the sum of the durations of the
\* cases.
Accumulate_SumTime(st, res) ==
    LET sr == st.suite
        tf == Extend(st.frame, res.ExecFrame)
    IN  [suite |-> [sr EXCEPT !.Failures = IF res.Error # Nil THEN @ + 1 ELSE @,
                              !.Skipped = IF res.Skipped THEN @ + 1 ELSE @,
                              !.Tests = @ + 1,
                              !.ID = @ + 1,
                              !.Cases = Append(@, TestCase(res, sr)),
                              !.Time = Seconds(@.sec * 1000 + @.frac
                                               + Duration(res.ExecFrame))],
         frame |-> tf]

\* lines 353-383: one iteration of the loop; st = [suite, frame]
Accumulate(st, res) ==
    LET sr == st.suite
        tf == Extend(st.frame, res.ExecFrame)
    IN  [suite |-> [sr EXCEPT !.Failures = IF res.Error # Nil THEN @ + 1 ELSE @,
                              !.Skipped = IF res.Skipped THEN @ + 1 ELSE @,
                              !.Tests = @ + 1,
                              !.ID = @ + 1,
                              !.Cases = Append(@, TestCase(res, sr)),
                              !.Time = Seconds(Duration(tf))],
         frame |-> tf]

\* lines 336-384: the loop over results[k..]
RECURSIVE Aggregate(_, _, _)
Aggregate(st, results, k) ==
    IF k > Len(results) THEN st
    ELSE Aggregate(Accumulate(st, results[k]), results, k + 1)

\* lines 334-384: the suite document of a batch read at instant t; <<>> is the
\* nil suite of an empty batch, <<d>> the document d.
BuildSuite(results, t) ==
    IF Len(results) = 0 THEN <<>>
    ELSE << Aggregate([suite |-> NewSuite(results[1], t),
                       frame |-> results[1].ExecFrame], results, 1).suite >>

\* FilePath with a name of its own for every invocation.
FilePath_PerCall(sr) ==
    OutPath \o "/" \o sr.fullName \o "-" \o ToString(sr.TimeStamp.utc) \o ".xml"

\* lines 394-395
FilePath(sr) == OutPath \o "/" \o sr.fullName \o ".xml"

\* What the operating system does with the three calls of flushSuite.
IOOutcomes == {"ok", "mkdirFails", "createFails", "writeFails"}

NoFiles == [f \in {} |-> <<>>]

\* old is what the call found at the path of its file: <<>> when there was
\* no such file, <<c>> when there was one of content c.
NoCall ==
    [n |-> 0, batch |-> <<>>, doc |-> <<>>, io |-> "ok", ret |-> "none", old |-> <<>>]

\* FlushSuite that creates the directory before it tests for the nil suite.
FlushSuite_MkdirFirst(fs, doc, io) ==
    IF io = "mkdirFails"
    THEN [files |-> fs.files, outDir |-> fs.outDir, ret |-> "panic"]
    ELSE IF doc = <<>>
    THEN [files |-> fs.files, outDir |-> TRUE, ret |-> "returned"]
    ELSE IF io = "createFails"
    THEN [files |-> fs.files, outDir |-> TRUE, ret |-> "panic"]
    ELSE [files  |-> (FilePath(doc[1]) :> (IF io = "ok" THEN doc ELSE <<>>)) @@ fs.files,
          outDir |-> TRUE,
          ret    |-> "returned"]

\* lines 389-411 on the file system fs = [files, outDir]; a file's content
\* is <<>> (created, nothing written) or <<d>>
FlushSuite(fs, doc, io) ==
    IF doc = <<>> THEN [files |-> fs.files, outDir |-> fs.outDir, ret |-> "returned"]
    ELSE IF io = "mkdirFails"
    THEN [files |-> fs.files, outDir |-> fs.outDir, ret |-> "panic"]
    ELSE IF io = "createFails"
    THEN [files |-> fs.files, outDir |-> TRUE, ret |-> "panic"]
    ELSE [files  |-> (FilePath(doc[1]) :> (IF io = "ok" THEN doc ELSE <<>>)) @@ fs.files,
          outDir |-> TRUE,
          ret    |-> "returned"]

\* lines 334-387: Report(results) while the operating system behaves as io
JReportCall(b, io) ==
    /\ Len(b) = 0 => io = "ok"
    /\ LET doc == BuildSuite(b, now)
           out == FlushSuite([files |-> files, outDir |-> outDir], doc, io)
       IN  /\ files' = out.files
           /\ outDir' = out.outDir
           /\ jlast' = [n |-> IF Len(b) = 0 THEN jlast.n ELSE jlast.n + 1,
                        batch |-> b, doc |-> doc, io |-> io, ret |-> out.ret,
                        old |-> IF doc # <<>> /\ FilePath(doc[1]) \in DOMAIN files
                                THEN << files[FilePath(doc[1])] >> ELSE <<>>]
    /\ now' = IF Len(b) = 0 THEN now ELSE now + 1

\* The harness of the XML reporter calls Report with a batch of at most n
\* results; a panic ends the process.
JReport(n) ==
    /\ jlast.ret # "panic"
    /\ jlast.n < MaxReports
    /\ \E s \in Suites, io \in IOOutcomes :
       \E b \in BatchesOf(s, n) : JReportCall(b, io)
    /\ UNCHANGED <<con, multi>>

\* The first Report of a run.
JReportFirst ==
    /\ jlast.ret = "none"
    /\ JReport(MaxBatch)

-----------------------------------------------------------------------------
(* MultiReporter *)

Members == {"console", "junit"}

\* The lists NewMultiReporter can be given: references to the console
\* reporter and to the XML reporter, in any order, possibly repeated.
MemberLists == UNION { [1..n -> Members] : n \in 0..MaxMembers }

\* The harness calls Init once, Report once per suite and Flush once.
Lifecycle == << "Init", "Report", "Flush" >>

NoRun == [op |-> "none", batch |-> <<>>, next |-> 0, ret |-> "none"]

\* The next call of the lifecycle; Report is given one of the batches bs.
MCallOf(bs) ==
    /\ mrun.ret \in {"none", "returned"}
    /\ mphase < Len(Lifecycle)
    /\ \E b \in IF Lifecycle[mphase + 1] = "Report" THEN bs ELSE { <<>> } :
          mrun' = [op |-> Lifecycle[mphase + 1], batch |-> b, next |-> 1, ret |-> "running"]
    /\ mphase' = mphase + 1
    /\ UNCHANGED <<con, now, junit, Reporters, mlog>>

MCall == MCallOf(BatchesOf(SuiteOf(1), MaxParBatch))

\* AfterMember that recovers from the panic of a member and goes on.
AfterMember_Recover(run, ret) == [run EXCEPT !.next = @ + 1]

\* AfterMember that steps over the member after the one that returned.
AfterMember_SkipNext(run, ret) ==
    IF ret = "panic" THEN [run EXCEPT !.ret = "panic"] ELSE [run EXCEPT !.next = @ + 2]

\* lines 426-442: the range loop after the call of a member: a panic of the
\* member unwinds the loop and the caller, a return moves on to the next.
AfterMember(run, ret) ==
    IF ret = "panic" THEN [run EXCEPT !.ret = "panic"] ELSE [run EXCEPT !.next = @ + 1]

\* The member the loop is at is of this kind; the instrumentation records
\* the call and how it ended.
Invoke(kind, ret) ==
    /\ mrun.ret = "running"
    /\ mrun.next <= Len(Reporters)
    /\ Reporters[mrun.next] = kind
    /\ mlog' = Append(mlog, [call |-> mphase, member |-> mrun.next, op |-> mrun.op,
                             batch |-> mrun.batch, ret |-> ret])

\* lines 428, 434, 440 when the member is the console reporter
MConsole ==
    /\ Invoke("console", "returned")
    /\ LET st == [r |-> r, out |-> sink] IN
       CASE mrun.op = "Init" ->
               /\ r' = InitFrame(r, now)
               /\ now' = now + 1
               /\ UNCHANGED sink
         [] mrun.op = "Report" ->
               /\ r' = ConsoleReport(st, mrun.batch, mphase).r
               /\ sink' = ConsoleReport(st, mrun.batch, mphase).out
               /\ UNCHANGED now
         [] mrun.op = "Flush" ->
               /\ r' = ConsoleFlush(st, now, mphase).r
               /\ sink' = ConsoleFlush(st, now, mphase).out
               /\ now' = now + 1
    /\ mrun' = AfterMember(mrun, "returned")
    /\ UNCHANGED <<ioMutex, thr, junit, Reporters, mphase>>

\* lines 428, 434, 440 when the member is the XML reporter, whose Init and
\* Flush do nothing (lines 285-287, 413-415)
MJUnit ==
    /\ IF mrun.op = "Report"
       THEN /\ \E io \in IOOutcomes : JReportCall(mrun.batch, io)
            /\ Invoke("junit", jlast'.ret)
            /\ mrun' = AfterMember(mrun, jlast'.ret)
       ELSE /\ Invoke("junit", "returned")
            /\ mrun' = AfterMember(mrun, "returned")
            /\ UNCHANGED <<junit, now>>
    /\ UNCHANGED <<con, Reporters, mphase>>

\* the end of the range loop
MReturn ==
    /\ mrun.ret = "running"
    /\ mrun.next > Len(Reporters)
    /\ mrun' = [mrun EXCEPT !.ret = "returned"]
    /\ UNCHANGED <<con, now, junit, Reporters, mphase, mlog>>

-----------------------------------------------------------------------------
(* Specifications *)

\* lines 275-277: NewConsoleReporter
NewConsoleReporter ==
    [IntendSize |-> 0, execFrame |-> <<>>, total |-> 0, failed |-> 0, skipped |-> 0]

\* The state after construction: the reporters are new, reporting starts at
\* instant 4000, after the frames of the results; q is the number of calls
\* each thread issues on the console reporter, list the MultiReporter's list.
Start(q, list) ==
    /\ r = NewConsoleReporter
    /\ ioMutex = 0
    /\ sink = <<>>
    /\ now = 4000
    /\ pc = [p \in Threads |-> "idle"]
    /\ batch = [p \in Threads |-> <<>>]
    /\ idx = [p \in Threads |-> 0]
    /\ cp = [p \in Threads |-> NoCopy]
    /\ callId = [p \in Threads |-> 0]
    /\ quota = q
    /\ calls = <<>>
    /\ files = NoFiles
    /\ outDir = FALSE
    /\ jlast = NoCall
    /\ Reporters = list
    /\ mrun = NoRun
    /\ mphase = 0
    /\ mlog = <<>>

\* Parallel suites on the console reporter: every thread issues one call.
Init == Start([p \in Threads |-> 1], <<>>)

Next ==
    \/ ConsoleInit
    \/ \E p \in Threads : CallReport(p, MaxParBatch) \/ CallFlush(p) \/ Run(p)

Spec == Init /\ [][Next]_vars

\* The scheduler runs every goroutine that can take a step: a call that is
\* not waiting for the mutex goes on, and a call waiting for a mutex that
\* stays free acquires it.
Fairness == \A p \in Threads : WF_vars(Run(p))

SpecFair == Spec /\ Fairness

\* The console reporter when one thread issues all the calls, one after the
\* other.
InitSeq == Start([p \in Threads |-> IF p = 1 THEN MaxCalls ELSE 0], <<>>)

NextSeq ==
    \/ ConsoleInit
    \/ CallReport(1, MaxBatch) \/ CallFlush(1) \/ Run(1)

SpecSeq == InitSeq /\ [][NextSeq]_vars

\* The console reporter on results with traces, one thread.
NextTrace ==
    \/ ConsoleInit
    \/ CallReportOf(1, TracedBatchesOf(SuiteOf(1), MaxParBatch)) \/ CallFlush(1) \/ Run(1)

SpecTrace == InitSeq /\ [][NextTrace]_vars

\* The XML reporter on one batch.
InitXML == Start([p \in Threads |-> 0], <<>>)

NextXML == JReportFirst

SpecXML == InitXML /\ [][NextXML]_vars

\* The XML reporter on several batches, one after the other.
NextRerun == JReport(MaxParBatch)

SpecRerun == InitXML /\ [][NextRerun]_vars

\* A MultiReporter over the two reporters.
InitMulti == \E list \in MemberLists : Start([p \in Threads |-> 0], list)

NextMulti == MCall \/ MConsole \/ MJUnit \/ MReturn

SpecMulti == InitMulti /\ [][NextMulti]_vars

\* A MultiReporter over the two reporters, given batches that mix suites.
NextMixed == MCallOf(MixedBatches(MaxBatch)) \/ MConsole \/ MJUnit \/ MReturn

SpecMixed == InitMulti /\ [][NextMixed]_vars

-----------------------------------------------------------------------------
(* Properties of the console reporter *)

\* The number of case lines on the sink that carry label l.
Labelled(l) ==
    Cardinality({ k \in DOMAIN sink : sink[k].kind = "case" /\ sink[k].label = l })

IsReport(c) == calls[c].op = "Report"

IsFlush(c) == calls[c].op = "Flush"

\* C1: the running counters reconcile with what was rendered: total is the
\* number of case lines written so far, failed the number of FAILED labels,
\* skipped the number of SKIPPED labels, and total - failed - skipped, the
\* value Flush prints as passed, the number of PASSED labels.
C1_CountersReconcile ==
    /\ r.total = Cardinality({ k \in DOMAIN sink : sink[k].kind = "case" })
    /\ r.failed = Labelled(StatusFailed.Label)
    /\ r.skipped = Labelled(StatusSkipped.Label)
    /\ r.total - r.failed - r.skipped = Labelled(StatusPassed.Label)
    /\ r.total = Labelled(StatusPassed.Label) + r.failed + r.skipped

\* Two Report calls have returned and every label has been rendered.
C1_Witness ==
    /\ Len(calls) = 2 /\ IsReport(1) /\ IsReport(2)
    /\ pc[1] = "idle"
    /\ Labelled(StatusPassed.Label) > 0
    /\ Labelled(StatusFailed.Label) > 0
    /\ Labelled(StatusSkipped.Label) > 0
    /\ r.total = 4

\* The results handed to the Report calls issued before call c.
ReportedBefore(c) ==
    UNION { { calls[j].batch[k] : k \in DOMAIN calls[j].batch } :
            j \in { i \in 1..(c - 1) : IsReport(i) } }

\* C2: the overall result a Flush prints is FAILED if and only if a result
\* with a non-nil failure was passed to a Report call of the run, whether
\* that result was skipped or not (one thread issues the calls, so every
\* Report issued before the Flush has returned).
C2_OverallFailedIffFailure ==
    \A k \in DOMAIN sink :
        sink[k].kind = "summary" =>
            ( sink[k].table[1].overall = "FAILED"
              <=> \E res \in ReportedBefore(sink[k].call) : res.Error # Nil )

\* C3: while a Report renders it holds the mutex, and the lines of two
\* Report calls are not interleaved: between two lines of one Report call
\* there is no line of another Report call.
C3_ReportsNotInterleaved ==
    /\ \A p \in Threads :
          pc[p] \in {"r_begin", "r_case", "r_end", "r_unlock"} => ioMutex = p
    /\ \A i, j, k \in DOMAIN sink :
          ( /\ i < j /\ j < k
            /\ sink[i].call = sink[k].call
            /\ IsReport(sink[i].call) /\ IsReport(sink[j].call) )
          => sink[j].call = sink[i].call

\* Two Report calls overlapped: the call issued first wrote after the whole
\* output of the call issued second.
C3_Witness ==
    /\ Len(calls) = 2 /\ IsReport(1) /\ IsReport(2)
    /\ calls[1].thread # calls[2].thread
    /\ Len(sink) = 6
    /\ sink[1].call = 2 /\ sink[3].call = 2
    /\ sink[4].call = 1 /\ sink[6].call = 1

\* C4: every print of Flush happens while Flush holds the mutex Report
\* holds, and the summary and the output of a Report call are not
\* interleaved: no line of a Flush lies between two lines of a Report call,
\* and no line of a Report call lies between two lines of a Flush.
C4_FlushUnderSameLock ==
    /\ \A p \in Threads :
          pc[p] \in {"f_close", "f_head", "f_table", "f_tail", "f_unlock"} => ioMutex = p
    /\ \A i, j, k \in DOMAIN sink :
          ( /\ i < j /\ j < k
            /\ sink[i].call = sink[k].call
            /\ \/ IsReport(sink[i].call) /\ IsFlush(sink[j].call)
               \/ IsFlush(sink[i].call) /\ IsReport(sink[j].call) )
          => sink[j].call = sink[i].call

\* A Flush and a Report overlapped: the Report was issued first and waited
\* for the lock while the Flush, issued second, printed its whole summary.
C4_Witness ==
    /\ Len(calls) = 2 /\ IsReport(1) /\ IsFlush(2)
    /\ Len(calls[1].batch) > 0
    /\ pc[calls[1].thread] = "r_lock"
    /\ pc[calls[2].thread] = "f_unlock"
    /\ \E k \in DOMAIN sink : sink[k].kind = "summary"

-----------------------------------------------------------------------------
(* Properties of the XML reporter *)

EarliestStart(results) ==
    CHOOSE x \in { results[k].ExecFrame.Start : k \in DOMAIN results } :
        \A k \in DOMAIN results : x <= results[k].ExecFrame.Start

LatestEnd(results) ==
    CHOOSE x \in { results[k].ExecFrame.End : k \in DOMAIN results } :
        \A k \in DOMAIN results : x >= results[k].ExecFrame.End

RECURSIVE SumOfDurations(_, _)
SumOfDurations(results, k) ==
    IF k > Len(results) THEN 0
    ELSE Duration(results[k].ExecFrame) + SumOfDurations(results, k + 1)

\* C5: the time of the suite document of a non-empty batch is the latest end
\* of the frames of its results minus their earliest start, in any order of
\* the results.
C5_SuiteTimeIsUnion ==
    jlast.doc # <<>> =>
        jlast.doc[1].Time = Seconds(LatestEnd(jlast.batch) - EarliestStart(jlast.batch))

\* A batch whose second result started before the first, and whose union
\* duration is neither the sum of the durations nor the first duration.
C5_Witness ==
    /\ jlast.ret = "returned" /\ jlast.io = "ok"
    /\ Len(jlast.batch) = 2
    /\ jlast.batch[2].ExecFrame.Start < jlast.batch[1].ExecFrame.Start
    /\ jlast.doc[1].Time # Seconds(SumOfDurations(jlast.batch, 1))
    /\ jlast.doc[1].Time # Seconds(Duration(jlast.batch[1].ExecFrame))
    /\ jlast.doc[1].Time = Seconds(600)

\* C6: the suite document written for a non-empty batch counts the results,
\* the failed results and the skipped results, holds one testcase record per
\* result in batch order, a failure child with the failure text on exactly
\* the records of the failed results and a skipped child with the skip
\* reason on exactly the records of the skipped results.
C6_DocumentMatchesBatch ==
    jlast.doc # <<>> =>
        LET b == jlast.batch
            d == jlast.doc[1]
        IN  /\ d.Tests = Len(b)
            /\ d.Failures = Cardinality({ k \in DOMAIN b : b[k].Error # Nil })
            /\ d.Skipped = Cardinality({ k \in DOMAIN b : b[k].Skipped })
            /\ Len(d.Cases) = Len(b)
            /\ \A k \in DOMAIN b :
                  /\ d.Cases[k].Name = b[k].Case
                  /\ (d.Cases[k].Failure # <<>>) <=> (b[k].Error # Nil)
                  /\ b[k].Error # Nil => d.Cases[k].Failure[1].Message = b[k].Error
                  /\ (d.Cases[k].Skipped # <<>>) <=> b[k].Skipped
                  /\ b[k].Skipped => d.Cases[k].Skipped[1].Message = b[k].SkippedMsg
            /\ (jlast.io = "ok" => \E f \in DOMAIN files : files[f] = jlast.doc)

\* A written document of a failed result followed by a skipped result.
C6_Witness ==
    /\ jlast.ret = "returned" /\ jlast.io = "ok"
    /\ Len(jlast.batch) = 2
    /\ jlast.batch[1].Error # Nil /\ ~jlast.batch[1].Skipped
    /\ jlast.batch[2].Skipped
    /\ jlast.doc[1].Failures = 1 /\ jlast.doc[1].Skipped = 1
    /\ \E f \in DOMAIN files : files[f] = jlast.doc

\* C7: the attributes of the suite document reconcile: tests is the number
\* of records with neither child plus failures plus skipped, so failures
\* plus skipped never exceeds tests.
C7_SuiteCountsReconcile ==
    jlast.doc # <<>> =>
        LET d == jlast.doc[1]
            passed == Cardinality({ k \in DOMAIN d.Cases :
                                      d.Cases[k].Failure = <<>> /\ d.Cases[k].Skipped = <<>> })
        IN  /\ d.Tests = passed + d.Failures + d.Skipped
            /\ d.Failures + d.Skipped <= d.Tests

\* The name flushSuite gives the file of a document: the fully-qualified
\* name of its suite with the extension.
NameOfDocument(d) == OutPath \o "/" \o d.fullName \o ".xml"

-----------------------------------------------------------------------------
(* Properties of the MultiReporter *)

\* The member calls logged for composite call c.
LogOf(c) == SelectSeq(mlog, LAMBDA e : e.call = c)

\* Composite call c has returned to the harness.
Returned(c) == c < mphase \/ (c = mphase /\ mrun.ret = "returned")

\* C8: when the Report of a member panics, no later member is invoked in
\* that call and the panic reaches the caller of MultiReporter.Report: the
\* panicking member call is the last call logged and the composite call has
\* ended with the panic.
C8_FailFast ==
    \A k \in DOMAIN mlog :
        mlog[k].ret = "panic" =>
            /\ k = Len(mlog)
            /\ mlog[k].op = "Report"
            /\ mrun.ret = "panic" /\ mrun.op = "Report"
            /\ mrun.next = mlog[k].member

\* With the list [A, B], A's Report has panicked: B's Report is not invoked.
C8_Witness ==
    /\ Len(Reporters) = 2
    /\ mrun.ret = "panic"
    /\ Len(LogOf(mphase)) = 1
    /\ LogOf(mphase)[1].member = 1 /\ LogOf(mphase)[1].ret = "panic"

\* The member calls of composite call c are one call of the method of c per
\* member, in list order, up to member n.
CalledInOrder(c, n) ==
    /\ Len(LogOf(c)) = n
    /\ \A i \in 1..n :
          /\ LogOf(c)[i].member = i
          /\ LogOf(c)[i].op = Lifecycle[c]
          /\ LogOf(c)[i].ret = "returned"

\* Every composite call that has returned has called every member once in
\* list order; the call under way has called the members before the next
\* one, Report with the batch of the call.
BroadcastSoFar ==
    \A c \in 1..mphase :
        /\ Returned(c) => CalledInOrder(c, Len(Reporters))
        /\ (c = mphase /\ mrun.ret = "running") =>
              /\ CalledInOrder(c, mrun.next - 1)
              /\ \A i \in 1..Len(LogOf(c)) : LogOf(c)[i].batch = mrun.batch

\* C9: a call of Init, Report or Flush in which no member fails calls the
\* same method of every member exactly once, in list order, Report with the
\* batch of the call, and the list of the composite never changes.
C9_BroadcastInOrder == [][Reporters' = Reporters /\ BroadcastSoFar']_vars

\* Init, Report and Flush have returned on a list of two different members.
C9_Witness ==
    /\ mphase = 3 /\ mrun.ret = "returned"
    /\ Len(Reporters) = 2 /\ Reporters[1] # Reporters[2]
    /\ Len(mlog) = 6
    /\ Len(LogOf(2)[1].batch) > 0

-----------------------------------------------------------------------------
(* Further properties of the XML reporter *)

\* C11: a Report call of a non-empty batch that returns normally has
\* persisted the complete document of its suite: when creating the
\* directory, creating the file or writing the file fails, the call does not
\* return normally.
C11_ReturnedMeansPersisted ==
    (jlast.doc # <<>> /\ jlast.ret = "returned") =>
        /\ NameOfDocument(jlast.doc[1]) \in DOMAIN files
        /\ files[NameOfDocument(jlast.doc[1])] = jlast.doc

\* C12: the timestamp of the suite document is the start instant of the
\* execution frame of the first result (every result of the inputs has a
\* frame with a start instant).
C12_TimestampOfFirstFrame ==
    jlast.doc # <<>> =>
        jlast.doc[1].TimeStamp = TimeStamp(jlast.batch[1].ExecFrame.Start)

-----------------------------------------------------------------------------
(* Properties of the rendering of Report *)

\* The lines call c has written, in order.
CallLines(c) == SelectSeq(sink, LAMBDA l : l.call = c)

\* Report call c has written its last line.
Rendered(c) ==
    /\ calls[c].op = "Report"
    /\ \E k \in DOMAIN sink : sink[k].call = c /\ sink[k].kind = "end"

\* The line of the k-th case among the lines L of a call.
CaseLine(L, k) ==
    CHOOSE i \in DOMAIN L :
        L[i].kind = "case" /\ Cardinality({ j \in 1..i : L[j].kind = "case" }) = k

\* The lines after the line of the k-th case, up to the next case or the end
\* of the call.
NestedLines(L, k) ==
    { j \in DOMAIN L :
        /\ j > CaseLine(L, k)
        /\ \A m \in (CaseLine(L, k) + 1)..j : L[m].kind \notin {"case", "end"} }

RequestTraces(res) == { t \in DOMAIN res.Traces : res.Traces[t].Req }

\* C13: a Report call starts one line per case; a case that is not skipped
\* and has no trace with a request descriptor (no trace at all, or only
\* traces whose request is nil) has no nested line, and the nested trace
\* lines of a case are those of its traces with a request descriptor.
C13_OneLineWithoutRequests ==
    \A c \in DOMAIN calls :
        Rendered(c) =>
            LET L == CallLines(c)
                b == calls[c].batch
            IN  /\ Cardinality({ i \in DOMAIN L : L[i].kind = "case" }) = Len(b)
                /\ \A k \in DOMAIN b :
                      /\ (~b[k].Skipped /\ RequestTraces(b[k]) = {}) =>
                            NestedLines(L, k) = {}
                      /\ ~b[k].Skipped =>
                            Cardinality({ j \in NestedLines(L, k) : L[j].kind = "trace" })
                               = Cardinality(RequestTraces(b[k]))

\* Two Report calls have been rendered: one of a case whose only trace has
\* no request (suite line, case line, closing line), one of a case with
\* nested lines.
C13_Witness ==
    \E c, d \in DOMAIN calls :
        /\ Rendered(c) /\ Rendered(d)
        /\ Len(calls[c].batch) = 1 /\ ~calls[c].batch[1].Skipped
        /\ calls[c].batch[1].Traces # <<>> /\ RequestTraces(calls[c].batch[1]) = {}
        /\ Len(CallLines(c)) = 3
        /\ Cardinality(RequestTraces(calls[d].batch[1])) = 2
        /\ Len(calls[d].batch[1].Traces) = 3
        /\ Cardinality(NestedLines(CallLines(d), 1)) = 5

\* C16: the indentation is balanced: between the iterations of a Report
\* call and after the call IntendSize has the value it had before the call
\* (that of a new reporter), and no line of a call is started at a lower
\* indentation.
C16_IndentBalanced ==
    /\ r.IntendSize = NewConsoleReporter.IntendSize
    /\ \A k \in DOMAIN sink : sink[k].indent >= NewConsoleReporter.IntendSize
    /\ \A k \in DOMAIN sink :
          sink[k].kind = "case" =>
              sink[k].indent = NewConsoleReporter.IntendSize + DefaultIntendSize

\* A skipped case and a case with traces, nil requests and expectations have
\* been reported, with lines three levels deep, and the indentation is back.
C16_Witness ==
    /\ \A p \in Threads : pc[p] = "idle"
    /\ r.IntendSize = 0
    /\ \E c, d \in DOMAIN calls :
          /\ Rendered(c) /\ Rendered(d)
          /\ calls[c].batch[1].Skipped
          /\ \E t \in DOMAIN calls[d].batch[1].Traces : ~calls[d].batch[1].Traces[t].Req
    /\ \E k \in DOMAIN sink : sink[k].indent = 3 * DefaultIntendSize

-----------------------------------------------------------------------------
(* Properties of batches that mix suites *)

\* The member calls of the Report of the lifecycle, made on reporters of
\* this kind.
ReportsOn(kind) ==
    SelectSeq(mlog, LAMBDA e : e.op = "Report" /\ Reporters[e.member] = kind)

\* C14: the first result's suite is authoritative for a batch that mixes
\* suites: every Report of the console reporter prints one suite line, with
\* the name of the first result's suite, and the Report of the XML reporter
\* builds one document with the name, the package, the class name of every
\* case record and the file name of the first result's suite, holding every
\* result of the batch.
C14_FirstSuiteAuthoritative ==
    /\ \A k \in DOMAIN sink :
          sink[k].kind = "suite" =>
              /\ ReportsOn("console") # <<>>
              /\ sink[k].text = FullName(ReportsOn("console")[1].batch[1].Suite)
    /\ Cardinality({ k \in DOMAIN sink : sink[k].kind = "suite" })
          = Cardinality({ i \in DOMAIN ReportsOn("console") :
                            ReportsOn("console")[i].batch # <<>> })
    /\ jlast.doc # <<>> =>
          LET first == jlast.batch[1].Suite
              d == jlast.doc[1]
          IN  /\ d.Name = first.Name
              /\ d.PackageName = PackageName(first)
              /\ Len(d.Cases) = Len(jlast.batch)
              /\ \A k \in DOMAIN d.Cases :
                    /\ d.Cases[k].Name = jlast.batch[k].Case
                    /\ d.Cases[k].ClassName = FullName(first)
              /\ DOMAIN files \subseteq { OutPath \o "/" \o FullName(first) \o ".xml" }
              /\ (jlast.ret = "returned" /\ jlast.io = "ok") =>
                    files = (OutPath \o "/" \o FullName(first) \o ".xml") :> jlast.doc

\* Both reporters have reported a batch of two results of different suites.
C14_Witness ==
    /\ mphase = 2 /\ mrun.ret = "returned"
    /\ Len(ReportsOn("console")) = 1 /\ Len(ReportsOn("junit")) = 1
    /\ Len(jlast.batch) = 2
    /\ jlast.batch = ReportsOn("console")[1].batch
    /\ FullName(jlast.batch[1].Suite) # FullName(jlast.batch[2].Suite)
    /\ jlast.io = "ok"
    /\ Len(jlast.doc[1].Cases) = 2
    /\ Cardinality({ k \in DOMAIN sink : sink[k].kind = "suite" }) = 1
    /\ Cardinality({ k \in DOMAIN sink : sink[k].kind = "case" }) = 2

-----------------------------------------------------------------------------
(* Properties of Flush next to running Report calls *)

\* The Report calls that wrote their last line, and so released the mutex,
\* before the line at position k of the sink was written.
ReleasedBefore(k) ==
    { c \in DOMAIN calls :
        /\ calls[c].op = "Report"
        /\ \E j \in 1..(k - 1) : sink[j].call = c /\ sink[j].kind = "end" }

\* The case lines with label l of the calls cs.
CasesOf(cs, l) ==
    Cardinality({ j \in DOMAIN sink :
                    sink[j].kind = "case" /\ sink[j].call \in cs /\ sink[j].label = l })

\* C15: the totals a Flush prints are the counters at the moment it holds
\* the mutex: they count every case of every Report call that released the
\* mutex before the Flush acquired it, also when the Flush was called while
\* such a Report was in progress.
C15_FlushPrintsTotalsAtLock ==
    \A k \in DOMAIN sink :
        sink[k].kind = "summary" =>
            LET t == sink[k].table[1]
                done == ReleasedBefore(k)
            IN  /\ t.failed = CasesOf(done, StatusFailed.Label)
                /\ t.skipped = CasesOf(done, StatusSkipped.Label)
                /\ t.passed = CasesOf(done, StatusPassed.Label)
                /\ t.total = t.passed + t.failed + t.skipped
                /\ t.overall = IF t.failed # 0 THEN "FAILED" ELSE "PASSED"

-----------------------------------------------------------------------------
(* Progress of the console reporter *)

\* C17: a call that has returned does not hold the mutex, whichever return
\* path it took, and under fair scheduling every Report or Flush call that
\* was issued, alone or next to other calls, acquires the mutex and returns.
C17_CallsComplete ==
    /\ [](\A p \in Threads : pc[p] = "idle" => ioMutex # p)
    /\ \A p \in Threads : (pc[p] # "idle") ~> (pc[p] = "idle" /\ ioMutex # p)

\* Every thread has issued its call and returned, one of the calls was a
\* Report of an empty batch, another one has written its lines, and the
\* mutex is free.
C17_Witness ==
    /\ \A p \in Threads : pc[p] = "idle" /\ quota[p] = 0
    /\ Len(calls) = NProcs
    /\ \E c \in DOMAIN calls : calls[c].op = "Report" /\ calls[c].batch = <<>>
    /\ \E c \in DOMAIN calls : \E k \in DOMAIN sink : sink[k].call = c
    /\ ioMutex = 0

-----------------------------------------------------------------------------
(* Properties of the two reporters on the same batches *)

\* C18: when the console reporter and the XML reporter have reported the
\* same batch, the counters of the console reporter are the attributes of
\* the suite document: total is tests, failed is failures, skipped is
\* skipped (all 0 when the batch was empty and there is no document).
C18_ReportersAgree ==
    ( /\ mphase >= 2 /\ Returned(2)
      /\ Len(ReportsOn("console")) = 1 /\ Len(ReportsOn("junit")) = 1 ) =>
        /\ r.total   = IF jlast.doc = <<>> THEN 0 ELSE jlast.doc[1].Tests
        /\ r.failed  = IF jlast.doc = <<>> THEN 0 ELSE jlast.doc[1].Failures
        /\ r.skipped = IF jlast.doc = <<>> THEN 0 ELSE jlast.doc[1].Skipped

\* C19: a Report of an empty batch has no effect: on the console reporter
\* it writes nothing and leaves the counters and the indentation as they
\* are, on the XML reporter it creates no directory and no file, and it
\* does not abort.
C19_EmptyBatchNoEffect ==
    [][ (mrun.op = "Report" /\ mrun.batch = <<>> /\ mrun.ret = "running") =>
           /\ sink' = sink
           /\ r' = r
           /\ files' = files
           /\ outDir' = outDir
           /\ mrun'.ret # "panic" ]_vars

\* Both reporters have been given the empty batch and have returned, and
\* nothing was written or created.
C19_Witness ==
    /\ mphase = 2 /\ mrun.ret = "returned" /\ mrun.batch = <<>>
    /\ Len(ReportsOn("console")) = 1 /\ Len(ReportsOn("junit")) = 1
    /\ \A i \in DOMAIN mlog : mlog[i].op = "Report" => mlog[i].batch = <<>>
    /\ sink = <<>> /\ r.total = 0 /\ files = NoFiles /\ ~outDir

====
